---- MODULE Spec2Model ----
(***************************************************************************)
(* Model of the multi-store card search of the MTG price finder            *)
(* (App.tsx): validateCardName, fetchWithRetry, searchSingleCard and       *)
(* searchCards.                                                            *)
(*                                                                         *)
(* Text (card names, product titles, price strings) is a sequence of       *)
(* one-character strings.  A number is an integer count of 10^-PriceScale  *)
(* units.  A JSON value is a record tagged by its JavaScript type.         *)
(* The url and image fields of a result are left out: they never decide    *)
(* filtering, ordering or status.                                          *)
(***************************************************************************)
EXTENDS Integers, Sequences, FiniteSets, TLC

\* ------------------------------------------------------------------ bounds

\* Fractional digits a modelled number keeps.
PriceScale == 2

\* The standalone fetchWithRetry runs take maxRetries from -1..MaxAttemptsBound.
MaxAttemptsBound == 4

\* The keystrokes typed into the search box in one run.
MaxKeystrokes == 4

\* ------------------------------------------------------------------ program constants

\* fetchWithRetry(proxyUrl, 3)
StoreMaxRetries == 3

\* Math.pow(2, attempt - 1) * 1000
BackoffBaseMs == 1000

\* setTimeout(resolve, 100)
PauseMs == 100

\* debounce(fetchSuggestions, 300)
DebounceMs == 300

\* ------------------------------------------------------------------ text

Whitespace == {" ", "\n", "\t"}

UpperChars == <<"A","B","C","D","E","F","G","H","I","J","K","L","M",
                "N","O","P","Q","R","S","T","U","V","W","X","Y","Z">>

LowerChars == <<"a","b","c","d","e","f","g","h","i","j","k","l","m",
                "n","o","p","q","r","s","t","u","v","w","x","y","z">>

DigitChars == <<"0","1","2","3","4","5","6","7","8","9">>

ToLowerChar(c) ==
    IF \E k \in 1..26 : UpperChars[k] = c
    THEN LowerChars[CHOOSE k \in 1..26 : UpperChars[k] = c]
    ELSE c

\* String.prototype.toLowerCase
ToLowerCase(s) == [k \in 1..Len(s) |-> ToLowerChar(s[k])]

\* String.prototype.includes
Includes(hay, needle) ==
    \E k \in 0..(Len(hay) - Len(needle)) :
        SubSeq(hay, k + 1, k + Len(needle)) = needle

RECURSIVE TrimStart(_)
TrimStart(s) ==
    IF s # <<>> /\ Head(s) \in Whitespace THEN TrimStart(Tail(s)) ELSE s

RECURSIVE TrimEnd(_)
TrimEnd(s) ==
    IF s # <<>> /\ s[Len(s)] \in Whitespace
    THEN TrimEnd(SubSeq(s, 1, Len(s) - 1))
    ELSE s

\* String.prototype.trim
Trim(s) == TrimEnd(TrimStart(s))

\* String.prototype.split('\n'): the pieces between the separators; the empty
\* string splits into one empty piece.
RECURSIVE SplitLines(_)
SplitLines(s) ==
    IF \E k \in 1..Len(s) : s[k] = "\n"
    THEN LET k == CHOOSE j \in 1..Len(s) :
                      s[j] = "\n" /\ \A h \in 1..(j - 1) : s[h] # "\n"
         IN  <<SubSeq(s, 1, k - 1)>> \o SplitLines(SubSeq(s, k + 1, Len(s)))
    ELSE <<s>>

RECURSIVE SelectNonEmpty(_)
SelectNonEmpty(ss) ==
    IF ss = <<>> THEN <<>>
    ELSE IF Head(ss) # <<>> THEN <<Head(ss)>> \o SelectNonEmpty(Tail(ss))
    ELSE SelectNonEmpty(Tail(ss))

\* ------------------------------------------------------------------ numbers

RECURSIVE Pow(_, _)
Pow(b, e) == IF e <= 0 THEN 1 ELSE b * Pow(b, e - 1)

IsDigit(c) == \E k \in 1..10 : DigitChars[k] = c

DigitVal(c) == (CHOOSE k \in 1..10 : DigitChars[k] = c) - 1

RECURSIVE TakeDigits(_)
TakeDigits(s) ==
    IF s # <<>> /\ IsDigit(Head(s)) THEN <<Head(s)>> \o TakeDigits(Tail(s)) ELSE <<>>

RECURSIVE DigitsValue(_)
DigitsValue(ds) ==
    IF ds = <<>> THEN 0
    ELSE DigitsValue(SubSeq(ds, 1, Len(ds) - 1)) * 10 + DigitVal(ds[Len(ds)])

\* The fraction digits as a count of 10^-PriceScale units.
FractionValue(ds) ==
    LET kept == SubSeq(ds, 1, IF Len(ds) < PriceScale THEN Len(ds) ELSE PriceScale)
    IN  DigitsValue(kept) * Pow(10, PriceScale - Len(kept))

\* parseFloat of a decimal string: optional sign, integer digits, optional
\* point and fraction digits; whatever follows is ignored.
ParseFloat(s) ==
    LET neg  == s # <<>> /\ Head(s) = "-"
        u    == IF s # <<>> /\ Head(s) \in {"-", "+"} THEN Tail(s) ELSE s
        ip   == TakeDigits(u)
        rest == SubSeq(u, Len(ip) + 1, Len(u))
        fp   == IF rest # <<>> /\ Head(rest) = "." THEN TakeDigits(Tail(rest)) ELSE <<>>
        mag  == DigitsValue(ip) * Pow(10, PriceScale) + FractionValue(fp)
    IN  IF neg THEN 0 - mag ELSE mag

\* ------------------------------------------------------------------ JSON values

JUndefined == [t |-> "undefined"]

JNull == [t |-> "null"]

JStr(s) == [t |-> "string", s |-> s]

JBool(b) == [t |-> "boolean", b |-> b]

JNum(n) == [t |-> "number", n |-> n]

JArr(a) == [t |-> "array", a |-> a]

JObj(o) == [t |-> "object", o |-> o]

\* v.k where v is known to be neither null nor undefined
Prop(v, k) ==
    IF v.t = "object" /\ k \in DOMAIN v.o THEN v.o[k] ELSE JUndefined

IsNullish(v) == v.t \in {"undefined", "null"}

\* v?.k
OptProp(v, k) == IF IsNullish(v) THEN JUndefined ELSE Prop(v, k)

\* ToBoolean
Truthy(v) ==
    CASE v.t = "undefined" -> FALSE
      [] v.t = "null"      -> FALSE
      [] v.t = "boolean"   -> v.b
      [] v.t = "string"    -> v.s # <<>>
      [] v.t = "number"    -> v.n # 0
      [] OTHER             -> TRUE

\* a || b
OrElse(a, b) == IF Truthy(a) THEN a ELSE b

\* ------------------------------------------------------------------ stores

\* const stores = [...]
stores == <<
    [name |-> "Players C&C",   key |-> "playerscandc"],
    [name |-> "Mana Lounge",   key |-> "manalounge"],
    [name |-> "Lamood Comics", key |-> "lamoodcomics"] >>

StoreIdx == 1..Len(stores)

\* ------------------------------------------------------------------ store query: parse, filter, map

UnknownCard == <<"U","n","k","n","o","w","n"," ","C","a","r","d">>

\* data?.resources?.results?.products || []
ProductsOf(data) ==
    OrElse(OptProp(OptProp(OptProp(data, "resources"), "results"), "products"),
           JArr(<<>>))

\* product.available === true
IsAvailable(product) == Prop(product, "available") = JBool(TRUE)

\* (product.title || '')
TitleOrEmpty(product) == OrElse(Prop(product, "title"), JStr(<<>>))

\* TitleMatches comparing the title and the name as they are written.
TitleMatches_caseSensitive(product, cardName) ==
    Includes(TitleOrEmpty(product).s, cardName)

\* productTitle.includes(searchCardName), both lower-cased
TitleMatches(product, cardName) ==
    Includes(ToLowerCase(TitleOrEmpty(product).s), ToLowerCase(cardName))

\* parseFloat(product.price_min || '0')
PriceField(product, field) ==
    LET v == OrElse(Prop(product, field), JStr(<<"0">>))
    IN  CASE v.t = "string" -> ParseFloat(v.s)
          [] v.t = "number" -> v.n

\* .map((product) => ({ store: store.name, ... }))
NormalizedResult(store, product) ==
    [store        |-> store.name,
     name         |-> OrElse(Prop(product, "title"), JStr(UnknownCard)).s,
     priceMin     |-> PriceField(product, "price_min"),
     priceMax     |-> PriceField(product, "price_max"),
     availability |-> "In Stock",
     condition    |-> "NM"]

\* The body of the per-store try block after fetchWithRetry has returned `data`.
\* threw: a TypeError was raised (products is no array, a product is null, or a
\* surviving product's title is truthy but no string).
MapProducts(store, cardName, data) ==
    LET products == ProductsOf(data)
        IsAv(p)  == IsAvailable(p)
        Match(p) == TitleMatches(p, cardName)
        Norm(p)  == NormalizedResult(store, p)
    IN  IF products.t # "array"
        THEN [threw |-> TRUE, results |-> <<>>]
        ELSE IF \E k \in 1..Len(products.a) : IsNullish(products.a[k])
        THEN [threw |-> TRUE, results |-> <<>>]
        ELSE LET avail == SelectSeq(products.a, IsAv)
             IN  IF \E k \in 1..Len(avail) : TitleOrEmpty(avail[k]).t # "string"
                 THEN [threw |-> TRUE, results |-> <<>>]
                 ELSE LET kept == SelectSeq(avail, Match)
                      IN  [threw   |-> FALSE,
                           results |-> [k \in 1..Len(kept) |-> Norm(kept[k])]]

\* ------------------------------------------------------------------ merge and sort

\* allResults.flat()
RECURSIVE Flat(_)
Flat(lists) == IF lists = <<>> THEN <<>> ELSE Head(lists) \o Flat(Tail(lists))

\* (a, b) => a.priceMin - b.priceMin
ComparePrice(a, b) == a.priceMin - b.priceMin

\* InsertSorted placing x ahead of the elements it ties with.
RECURSIVE InsertSorted_unstable(_, _)
InsertSorted_unstable(x, s) ==
    IF s = <<>> THEN <<x>>
    ELSE IF ComparePrice(x, Head(s)) > 0
    THEN <<Head(s)>> \o InsertSorted_unstable(x, Tail(s))
    ELSE <<x>> \o s

\* x goes behind every element it does not sort before
RECURSIVE InsertSorted(_, _)
InsertSorted(x, s) ==
    IF s = <<>> THEN <<x>>
    ELSE IF ComparePrice(x, Head(s)) >= 0
    THEN <<Head(s)>> \o InsertSorted(x, Tail(s))
    ELSE <<x>> \o s

\* Array.prototype.sort with ComparePrice (a stable sort)
RECURSIVE SortByPrice(_)
SortByPrice(s) ==
    IF s = <<>> THEN <<>>
    ELSE InsertSorted(s[Len(s)], SortByPrice(SubSeq(s, 1, Len(s) - 1)))

\* ------------------------------------------------------------------ fetchWithRetry

\* A response of the network to one fetch(url).
NetworkError == [kind |-> "error", ok |-> FALSE, parses |-> FALSE, json |-> JUndefined]

HttpResponse(ok, parses, json) ==
    [kind |-> "http", ok |-> ok, parses |-> parses, json |-> json]

\* Whether the try block of one attempt completes: fetch resolved, response.ok,
\* response.json() parsed.
AttemptSucceeds(r) == r.kind = "http" /\ r.ok /\ r.parses

\* The error the try block raises on response r, tagged with the attempt that
\* raised it (every failure is its own Error object).
ErrorOf(r, attempt) ==
    [attempt |-> attempt,
     what    |-> CASE r.kind = "error" -> "TypeError: Failed to fetch"
                   [] ~r.ok            -> "Error: HTTP status"
                   [] OTHER            -> "SyntaxError: JSON"]

NoError == [attempt |-> 0, what |-> ""]

\* The frame of one fetchWithRetry call: where it stands, the loop counter, the
\* requests issued so far, the backoff waits taken so far (ms), and the value
\* returned or the error thrown.
NoFetch ==
    [pc |-> "none", attempt |-> 0, maxRetries |-> 0, calls |-> 0,
     waits |-> <<>>, value |-> JUndefined, error |-> NoError]

\* WaitTime growing linearly instead of doubling.
WaitTime_linear(attempt) == attempt * BackoffBaseMs

\* Math.pow(2, attempt - 1) * 1000
WaitTime(attempt) == Pow(2, attempt - 1) * BackoffBaseMs

\* IsLastAttempt one attempt early.
IsLastAttempt_early(attempt, maxRetries) == attempt >= maxRetries - 1

\* const isLastAttempt = attempt === maxRetries
IsLastAttempt(attempt, maxRetries) == attempt = maxRetries

\* The call up to its first await: the loop is entered only if 1 <= maxRetries,
\* and then the first request is issued; otherwise the function falls off its
\* end and returns undefined.
fetchWithRetry_call(maxRetries) ==
    IF 1 <= maxRetries
    THEN [NoFetch EXCEPT !.pc = "fetch", !.attempt = 1, !.maxRetries = maxRetries,
                         !.calls = 1]
    ELSE [NoFetch EXCEPT !.pc = "returned", !.attempt = 1, !.maxRetries = maxRetries]

\* The request of the current attempt settles with response r.
fetchWithRetry_response(f, r) ==
    IF AttemptSucceeds(r)
    THEN [f EXCEPT !.pc = "returned", !.value = r.json]
    ELSE IF IsLastAttempt(f.attempt, f.maxRetries)
    THEN [f EXCEPT !.pc = "thrown", !.error = ErrorOf(r, f.attempt)]
    ELSE [f EXCEPT !.pc = "wait", !.waits = Append(@, WaitTime(f.attempt))]

\* The backoff timer fires: attempt++, loop test, next request.
fetchWithRetry_timer(f) ==
    IF f.attempt + 1 <= f.maxRetries
    THEN [f EXCEPT !.pc = "fetch", !.attempt = @ + 1, !.calls = @ + 1]
    ELSE [f EXCEPT !.pc = "returned", !.attempt = @ + 1, !.value = JUndefined]

\* ------------------------------------------------------------------ inputs of the model

\* Card names and product titles the runs use.
TxtBolt == <<"B","o","l","t">>

TxtOpt == <<"O","p","t">>

TxtZap == <<"Z","a","p">>

\* The characters the user types into the search box.
TypedChars == {"B", "o", " "}

\* What the user left in the form before pressing search: the mode, the search
\* box and the card-list box.
UserInputs == {
    [searchMode |-> "single", searchTerm |-> <<" ">> \o TxtBolt \o <<" ">>, cardList |-> <<>>],
    [searchMode |-> "single", searchTerm |-> <<" ", " ">>, cardList |-> TxtBolt],
    [searchMode |-> "list", searchTerm |-> <<>>,
     cardList |-> TxtOpt \o <<"\n">> \o TxtBolt],
    [searchMode |-> "list", searchTerm |-> TxtBolt,
     cardList |-> TxtZap \o <<"\n", " ", "\n", " ">> \o TxtZap \o <<" ", "\n", "b","o","l","t","\n">>],
    [searchMode |-> "list", searchTerm |-> TxtBolt, cardList |-> <<" ", "\n", "\n">>] }

Product(available, title, priceMin, priceMax) ==
    JObj([available |-> available, title |-> title,
          price_min |-> priceMin, price_max |-> priceMax])

SearchBody(products) ==
    JObj([resources |-> JObj([results |-> JObj([products |-> products])])])

\* The JSON bodies a store search may answer with.
StorePayloads == {
    \* two matches listed dearest first; the second has price_max below price_min
    SearchBody(JArr(<<
        Product(JBool(TRUE), JStr(TxtBolt), JStr(<<"5",".","0","0">>), JStr(<<"5",".","0","0">>)),
        Product(JBool(TRUE), JStr(<<"B","O","L","T"," ","F">>),
                JStr(<<"1",".","5","0">>), JStr(<<"1",".","0","0">>)) >>)),
    \* one match at the same minimum, one sold out, one other card without price_max
    SearchBody(JArr(<<
        Product(JBool(TRUE), JStr(<<"b","o","l","t">>), JStr(<<"1",".","5">>), JStr(<<"3">>)),
        Product(JBool(FALSE), JStr(TxtBolt), JStr(<<"0",".","5","0">>), JStr(<<"0",".","5","0">>)),
        Product(JBool(TRUE), JStr(TxtOpt), JStr(<<"0",".","1","0">>), JUndefined) >>)),
    \* no product path
    JObj([resources |-> JObj([results |-> JNull])]),
    \* a match followed by a product whose title is no string
    SearchBody(JArr(<<
        Product(JBool(TRUE), JStr(TxtBolt), JStr(<<"2",".","0","0">>), JStr(<<"2",".","0","0">>)),
        Product(JBool(TRUE), JBool(TRUE), JUndefined, JUndefined) >>)) }

\* What the network may answer to a store request.
StoreResponses ==
    {NetworkError, HttpResponse(FALSE, TRUE, JNull), HttpResponse(TRUE, FALSE, JUndefined)}
    \cup {HttpResponse(TRUE, TRUE, p) : p \in StorePayloads}

\* What the network may answer to the card lookup.
ValidationResponses ==
    {NetworkError, HttpResponse(FALSE, TRUE, JNull), HttpResponse(TRUE, TRUE, JNull)}

\* ------------------------------------------------------------------ state

VARIABLES
    searchMode,      \* useState 'single' | 'list'
    searchTerm,      \* useState: the search box
    cardList,        \* useState: the card-list box
    searchResults,   \* useState: the published outcomes
    loading,         \* useState
    error,           \* useState
    pc,              \* where searchCards stands
    cardsToSearch,   \* searchCards: const cardsToSearch
    i,               \* searchCards: the loop counter
    results,         \* searchCards: const results
    validation,      \* the validateCardName call of the current card
    tasks,           \* searchSingleCard: searchPromises, one per store
    settled,         \* the stores in the order their promises settled
    trace,           \* the pauses and searchSingleCard calls searchCards has made
    fr,              \* a fetchWithRetry call made on its own
    served,          \* the responses its endpoint has given, in order
    mapped,          \* a per-store try block run on its own on one payload
    vc,              \* a validateCardName call made on its own
    timers,          \* the setTimeout timers of debounce that are pending
    timeoutId,       \* debounce: let timeoutId, of the closure the last render made
    suggested        \* the autocomplete requests fetchSuggestions has issued

vars == <<searchMode, searchTerm, cardList, searchResults, loading, error, pc,
          cardsToSearch, i, results, validation, tasks, settled, trace, fr, served,
                   mapped, vc, timers, timeoutId, suggested>>

NoTask ==
    [card |-> -1, pc |-> "none", f |-> NoFetch, data |-> JUndefined,
     caught |-> FALSE, result |-> <<>>]

NoValidation == [card |-> -1, pc |-> "none", isValidCard |-> FALSE]

\* No per-store try block has run on its own yet.
NoMapped == [store |-> 0, cardName |-> <<>>, task |-> NoTask]

\* let timeoutId, before the closure's first call: undefined.
NoTimer == 0

\* ------------------------------------------------------------------ validateCardName

\* The frame of one validateCardName call: where it stands, the name it looks
\* up (cardName.trim()), the lookup requests issued, the responses received and
\* the boolean returned.
NoValidateCall ==
    [pc |-> "none", term |-> <<>>, calls |-> 0, answers |-> <<>>, value |-> FALSE]

\* The call up to its await: the url is built and fetch(url) is issued.
validateCardName_call(cardName) ==
    [NoValidateCall EXCEPT !.pc = "fetch", !.term = Trim(cardName), !.calls = 1]

\* validateCardName_response returning true for every HTTP response.
validateCardName_response_anyStatus(v, r) ==
    [v EXCEPT !.pc = "returned", !.answers = Append(@, r), !.value = (r.kind = "http")]

\* The request settles: return response.ok, or false from the catch block.
validateCardName_response(v, r) ==
    [v EXCEPT !.pc = "returned", !.answers = Append(@, r),
              !.value = (r.kind = "http" /\ r.ok)]

\* ------------------------------------------------------------------ searchSingleCard

\* ValidationFailed with the test dropped: the fan-out always runs.
ValidationFailed_never(isValidCard) == FALSE

\* if (!isValidCard)
ValidationFailed(isValidCard) == ~isValidCard

\* OnStoreError without the catch block: the store's promise rejects.
OnStoreError_rethrow(card) ==
    [card |-> card, pc |-> "rejected", f |-> NoFetch, data |-> JUndefined,
     caught |-> FALSE, result |-> <<>>]

\* catch (error) { console.warn(...); return []; }
OnStoreError(card) ==
    [card |-> card, pc |-> "done", f |-> NoFetch, data |-> JUndefined,
     caught |-> TRUE, result |-> <<>>]

\* One element of searchPromises, seen after its fetchWithRetry frame moved to f:
\* still running, or settled with the mapped products, or settled by the catch
\* block (fetchWithRetry threw, or the mapping did).
StoreTask(card, cardName, store, f) ==
    CASE f.pc \in {"fetch", "wait"} ->
            [card |-> card, pc |-> "running", f |-> f, data |-> JUndefined,
             caught |-> FALSE, result |-> <<>>]
      [] f.pc = "returned" ->
            LET m == MapProducts(store, cardName, f.value)
            IN  IF m.threw
                THEN [OnStoreError(card) EXCEPT !.data = f.value]
                ELSE [card |-> card, pc |-> "done", f |-> NoFetch, data |-> f.value,
                      caught |-> FALSE, result |-> m.results]
      [] f.pc = "thrown" -> OnStoreError(card)

\* StartTasks passing one attempt more to fetchWithRetry.
StartTasks_oneMore(card, cardName) ==
    [s \in StoreIdx |->
        StoreTask(card, cardName, stores[s], fetchWithRetry_call(StoreMaxRetries + 1))]

\* stores.map(async (store) => ...): every store's task runs to its first await,
\* which issues its first request.
StartTasks(card, cardName) ==
    [s \in StoreIdx |->
        StoreTask(card, cardName, stores[s], fetchWithRetry_call(StoreMaxRetries))]

\* AllSettled as a race: fulfilled by the first promise that settles.
AllSettled_any(ts) == \E s \in StoreIdx : ts[s].pc = "done"

\* await Promise.all(searchPromises): fulfilled once every promise is fulfilled
AllSettled(ts) == \A s \in StoreIdx : ts[s].pc = "done"

\* await Promise.all(searchPromises): rejected as soon as one promise rejects
AnyRejected(ts) == \E s \in StoreIdx : ts[s].pc = "rejected"

\* PromiseAllValues collecting the values in the order the promises settled.
PromiseAllValues_bySettling(ts, order) == [k \in 1..Len(order) |-> ts[order[k]].result]

\* The value of Promise.all: the promises' values by position in searchPromises,
\* whatever the order in which they settled.
PromiseAllValues(ts, order) == [s \in StoreIdx |-> ts[s].result]

\* NotFoundOutcome with a status the summary does not count.
NotFoundOutcome_uncounted(cardName) ==
    [cardName |-> cardName, status |-> "invalid", results |-> <<>>]

\* return { cardName, status: 'not_found', results: [] }
NotFoundOutcome(cardName) ==
    [cardName |-> cardName, status |-> "not_found", results |-> <<>>]

\* StatusOf with the empty list reported as found.
StatusOf_found(flatResults) == "found"

\* flatResults.length > 0 ? 'found' : 'no_inventory'
StatusOf(flatResults) == IF Len(flatResults) > 0 THEN "found" ELSE "no_inventory"

\* flat, status, sort, return
MergedOutcome(cardName, allResults) ==
    LET flatResults == Flat(allResults)
    IN  [cardName |-> cardName,
         status   |-> StatusOf(flatResults),
         results  |-> SortByPrice(flatResults)]

\* ------------------------------------------------------------------ searchCards

\* searchMode === 'single' ? [searchTerm.trim()] : cardList.split('\n').map(trim).filter(nonempty)
CardsToSearch(mode, term, list) ==
    IF mode = "single"
    THEN <<Trim(term)>>
    ELSE LET lines == SplitLines(list)
         IN  SelectNonEmpty([k \in 1..Len(lines) |-> Trim(lines[k])])

CountStatus(rs, status) == Cardinality({k \in 1..Len(rs) : rs[k].status = status})

SearchEvent(cardName) == [ev |-> "search", ms |-> 0, name |-> cardName]

PauseEvent == [ev |-> "pause", ms |-> PauseMs, name |-> <<>>]

\* NeedsPause with the first iteration not exempted.
NeedsPause_always(k) == k >= 0

\* if (i > 0)
NeedsPause(k) == k > 0

\* Published with only the outcome just pushed.
Published_last(pushed) == <<pushed[Len(pushed)]>>

\* setSearchResults([...results])
Published(pushed) == pushed

GenericError == "An error occurred while searching. Please try again."

\* The top of loop iteration k, entered with the validation record val and the
\* trace tr: either the pause starts, or searchSingleCard(cardName) runs to its
\* first await, where validateCardName issues the lookup request.
LoopTop(k, cardName, val, tr) ==
    IF NeedsPause(k)
    THEN /\ pc' = "pause"
         /\ trace' = Append(tr, PauseEvent)
         /\ validation' = val
    ELSE /\ pc' = "validate"
         /\ trace' = Append(tr, SearchEvent(cardName))
         /\ validation' = [card |-> k, pc |-> "pending", isValidCard |-> FALSE]

\* searchSingleCard returned `outcome`: push it, publish the copy, i++, then
\* either enter the next iteration or leave the loop, take the summary and run
\* the finally block.
CompleteCard(outcome, val) ==
    LET pushed == Append(results, outcome)
    IN  /\ results' = pushed
        /\ searchResults' = Published(pushed)
        /\ i' = i + 1
        /\ IF i + 1 < Len(cardsToSearch)
           THEN /\ LoopTop(i + 1, cardsToSearch[i + 2], val, trace)
                /\ UNCHANGED <<loading, error>>
           ELSE /\ pc' = "done"
                /\ trace' = trace
                /\ validation' = val
                /\ error' = IF /\ CountStatus(pushed, "found") = 0
                               /\ CountStatus(pushed, "not_found") = 0
                               /\ CountStatus(pushed, "no_inventory") = 0
                            THEN "No cards found. Please check your search terms."
                            ELSE error
                /\ loading' = FALSE

\* CatchSearchError without the finally block: loading stays set.
CatchSearchError_noFinally ==
    /\ error' = GenericError
    /\ loading' = loading
    /\ pc' = "caught"
    /\ UNCHANGED <<searchResults, results, i, trace, validation>>

\* await searchSingleCard(cardName) threw: the catch block, then finally.
CatchSearchError ==
    /\ error' = GenericError
    /\ loading' = FALSE
    /\ pc' = "caught"
    /\ UNCHANGED <<searchResults, results, i, trace, validation>>

\* The user submits the form: searchCards runs to its first await.
searchCards ==
    /\ pc = "idle"
    /\ cardsToSearch' = CardsToSearch(searchMode, searchTerm, cardList)
    /\ IF Len(cardsToSearch') = 0
       THEN /\ error' = IF searchMode = "single"
                        THEN "Please enter a card name to search"
                        ELSE "Please enter at least one card name"
            /\ pc' = "returned"
            /\ UNCHANGED <<loading, searchResults, results, i, validation, trace>>
       ELSE /\ loading' = TRUE
            /\ error' = ""
            /\ searchResults' = <<>>
            /\ results' = <<>>
            /\ i' = 0
            /\ LoopTop(0, cardsToSearch'[1], validation, trace)
    /\ UNCHANGED <<searchMode, searchTerm, cardList, tasks, settled, fr, served,
                   mapped, vc, timers, timeoutId, suggested>>

\* The pause between two cards ends: searchSingleCard(cardsToSearch[i]) runs to
\* its first await.
pauseTimer_fires ==
    /\ pc = "pause"
    /\ pc' = "validate"
    /\ trace' = Append(trace, SearchEvent(cardsToSearch[i + 1]))
    /\ validation' = [card |-> i, pc |-> "pending", isValidCard |-> FALSE]
    /\ UNCHANGED <<searchMode, searchTerm, cardList, searchResults, loading, error,
                   cardsToSearch, i, results, tasks, settled, fr, served,
                   mapped, vc, timers, timeoutId, suggested>>

\* The lookup request settles: validateCardName returns response.ok, or false
\* from its catch block, and searchSingleCard either returns not_found or fans
\* out to the stores.
validateCardName_settles ==
    /\ pc = "validate"
    /\ validation.pc = "pending"
    /\ \E r \in ValidationResponses :
        LET cardName    == cardsToSearch[i + 1]
            isValidCard == validateCardName_response(validateCardName_call(cardName), r).value
            val         == [validation EXCEPT !.pc = "done", !.isValidCard = isValidCard]
        IN  IF ValidationFailed(isValidCard)
            THEN /\ CompleteCard(NotFoundOutcome(cardName), val)
                 /\ UNCHANGED <<tasks, settled>>
            ELSE /\ validation' = val
                 /\ tasks' = StartTasks(i, cardName)
                 /\ settled' = <<>>
                 /\ pc' = "fanout"
                 /\ UNCHANGED <<searchResults, results, i, loading, error, trace>>
    /\ UNCHANGED <<searchMode, searchTerm, cardList, cardsToSearch, fr, served,
                   mapped, vc, timers, timeoutId, suggested>>

\* Store s's task moved its fetchWithRetry frame to f.  When that settles the
\* last promise, Promise.all resolves and searchSingleCard returns; a rejected
\* promise rejects Promise.all at once.
TaskStep(s, f) ==
    LET cardName == cardsToSearch[tasks[s].card + 1]
        task     == StoreTask(tasks[s].card, cardName, stores[s], f)
        ts       == [tasks EXCEPT ![s] = task]
        order    == IF task.pc = "running" THEN settled ELSE Append(settled, s)
    IN  /\ tasks' = ts
        /\ settled' = order
        /\ IF pc = "fanout" /\ AnyRejected(ts)
           THEN CatchSearchError
           ELSE IF pc = "fanout" /\ AllSettled(ts)
           THEN CompleteCard(MergedOutcome(cardName, PromiseAllValues(ts, order)), validation)
           ELSE UNCHANGED <<searchResults, results, i, loading, error, trace, pc, validation>>
        /\ UNCHANGED <<searchMode, searchTerm, cardList, cardsToSearch, fr, served,
                   mapped, vc, timers, timeoutId, suggested>>

\* The request of store s settles.
storeRequest_settles(s) ==
    /\ tasks[s].pc = "running"
    /\ tasks[s].f.pc = "fetch"
    /\ \E r \in StoreResponses : TaskStep(s, fetchWithRetry_response(tasks[s].f, r))

\* The backoff timer of store s fires.
backoffTimer_fires(s) ==
    /\ tasks[s].pc = "running"
    /\ tasks[s].f.pc = "wait"
    /\ TaskStep(s, fetchWithRetry_timer(tasks[s].f))

\* The component as constructed, but for the form.
Constructed ==
    /\ searchResults = <<>>
    /\ loading = FALSE
    /\ error = ""
    /\ pc = "idle"
    /\ cardsToSearch = <<>>
    /\ i = 0
    /\ results = <<>>
    /\ validation = NoValidation
    /\ tasks = [s \in StoreIdx |-> NoTask]
    /\ settled = <<>>
    /\ trace = <<>>
    /\ fr = NoFetch
    /\ served = <<>>
    /\ mapped = NoMapped
    /\ vc = NoValidateCall
    /\ timers = {}
    /\ timeoutId = NoTimer
    /\ suggested = <<>>

Init ==
    /\ \E u \in UserInputs :
        /\ searchMode = u.searchMode
        /\ searchTerm = u.searchTerm
        /\ cardList = u.cardList
    /\ Constructed

Next ==
    \/ searchCards
    \/ validateCardName_settles
    \/ \E s \in StoreIdx : storeRequest_settles(s)
    \/ \E s \in StoreIdx : backoffTimer_fires(s)
    \/ pauseTimer_fires

Spec == Init /\ [][Next]_vars

\* The request of store s is in flight: the guard of storeRequest_settles(s),
\* which then has a step for every response.
RequestInFlight(s) == tasks[s].pc = "running" /\ tasks[s].f.pc = "fetch"

\* Weak fairness of storeRequest_settles(s), its enabling condition written
\* out as the guard: a request does not stay in flight for ever.
RequestCompletes(s) ==
    []<>(~RequestInFlight(s)) \/ []<><<storeRequest_settles(s)>>_vars

\* Every network call completes and every timer fires: the lookup request,
\* the pause, each store's backoff timer and each store's request.
Fairness ==
    /\ WF_vars(validateCardName_settles)
    /\ WF_vars(pauseTimer_fires)
    /\ \A s \in StoreIdx : WF_vars(backoffTimer_fires(s))
    /\ \A s \in StoreIdx : RequestCompletes(s)

SpecLive == Spec /\ Fairness

\* ------------------------------------------------------------------ searchCards when searchSingleCard throws

\* No awaited promise of searchSingleCard rejects, so an exception can leave it
\* only from its synchronous tail after Promise.all (lines 207-213), as the
\* TypeError of allResults.flat() in a runtime whose arrays have no flat().
\* The request of store s settles the last promise of the card, the tail
\* throws, and the catch and finally blocks of searchCards run.
searchSingleCard_throws(s) ==
    /\ pc = "fanout"
    /\ tasks[s].pc = "running"
    /\ tasks[s].f.pc = "fetch"
    /\ \E r \in StoreResponses :
        LET cardName == cardsToSearch[tasks[s].card + 1]
            task     == StoreTask(tasks[s].card, cardName, stores[s],
                                  fetchWithRetry_response(tasks[s].f, r))
            ts       == [tasks EXCEPT ![s] = task]
        IN  /\ AllSettled(ts)
            /\ tasks' = ts
            /\ settled' = Append(settled, s)
            /\ CatchSearchError
    /\ UNCHANGED <<searchMode, searchTerm, cardList, cardsToSearch, fr, served,
                   mapped, vc, timers, timeoutId, suggested>>

NextFault ==
    \/ Next
    \/ \E s \in StoreIdx : searchSingleCard_throws(s)

SpecFault == Init /\ [][NextFault]_vars

\* ------------------------------------------------------------------ fetchWithRetry on its own

\* A caller invokes fetchWithRetry(url, maxRetries).
fetchWithRetry_invoked ==
    /\ fr.pc = "none"
    /\ \E m \in (0 - 1)..MaxAttemptsBound : fr' = fetchWithRetry_call(m)
    /\ UNCHANGED <<searchMode, searchTerm, cardList, searchResults, loading, error, pc,
                   cardsToSearch, i, results, validation, tasks, settled, trace, served,
                   mapped, vc, timers, timeoutId, suggested>>

\* Its request settles with what the endpoint answers.
fetchWithRetry_settles ==
    /\ fr.pc = "fetch"
    /\ \E r \in StoreResponses :
        /\ fr' = fetchWithRetry_response(fr, r)
        /\ served' = Append(served, r)
    /\ UNCHANGED <<searchMode, searchTerm, cardList, searchResults, loading, error, pc,
                   cardsToSearch, i, results, validation, tasks, settled, trace,
                   mapped, vc, timers, timeoutId, suggested>>

\* Its backoff timer fires.
fetchWithRetry_wakes ==
    /\ fr.pc = "wait"
    /\ fr' = fetchWithRetry_timer(fr)
    /\ UNCHANGED <<searchMode, searchTerm, cardList, searchResults, loading, error, pc,
                   cardsToSearch, i, results, validation, tasks, settled, trace, served,
                   mapped, vc, timers, timeoutId, suggested>>

\* The form as constructed (the useState initial values), nothing submitted.
InitFetch ==
    /\ searchMode = "single"
    /\ searchTerm = <<>>
    /\ cardList = <<>>
    /\ Constructed

NextFetch ==
    \/ fetchWithRetry_invoked
    \/ fetchWithRetry_settles
    \/ fetchWithRetry_wakes

SpecFetch == InitFetch /\ [][NextFetch]_vars

\* ------------------------------------------------------------------ the search box: handleInputChange, debounce, fetchSuggestions

\* A timer setTimeout(() => func.apply(null, args), delay) of debounce: its
\* id is the number of the keystroke that set it.
Timer(id, args) == [id |-> id, delay |-> DebounceMs, args |-> args]

\* clearTimeout(timeoutId): a no-op when timeoutId is undefined or names a
\* timer that has fired.
ClearTimeout(pending, id) == {t \in pending : t.id # id}

\* The closure variable timeoutId that the next call of
\* debouncedFetchSuggestions will see.  debounce(fetchSuggestions, 300) is
\* evaluated in the component body (line 84), so every render makes a new
\* closure whose timeoutId is undefined; the closure that set `id` is kept only
\* when no render came in between.
ClosureAfter(rendered, id) == IF rendered THEN NoTimer ELSE id

\* fetchSuggestions(query) up to its await: whether it issues the autocomplete
\* request (line 53 returns early on a blank or one-character query).
IssuesRequest(query) == ~(Trim(query) = <<>> \/ Len(query) < 2)

\* The user types the character ch at the end of the search box:
\* setSearchTerm(value), debouncedFetchSuggestions(value), and the render that
\* the state change causes.
handleInputChange(ch) ==
    /\ Len(searchTerm) < MaxKeystrokes
    /\ LET value == Append(searchTerm, ch)
           id    == Len(value)
       IN  /\ searchTerm' = value
           /\ timers' = ClearTimeout(timers, timeoutId) \cup {Timer(id, value)}
           /\ timeoutId' = ClosureAfter(value # searchTerm, id)
    /\ UNCHANGED <<searchMode, cardList, searchResults, loading, error, pc,
                   cardsToSearch, i, results, validation, tasks, settled, trace, fr, served,
                   mapped, vc, suggested>>

\* The oldest pending timer fires (equal delays fire in the order they were
\* set) and calls fetchSuggestions with the value of its keystroke.  The log
\* keeps the query, the search box at that moment and whether the
\* autocomplete request went out; suggestions, showSuggestions and
\* loadingSuggestions are not part of the state.
debounceTimer_fires ==
    /\ \E t \in timers :
        /\ \A u \in timers : t.id <= u.id
        /\ timers' = timers \ {t}
        /\ suggested' = Append(suggested, [query |-> t.args, term |-> searchTerm,
                                           requested |-> IssuesRequest(t.args)])
    /\ UNCHANGED <<searchMode, searchTerm, cardList, searchResults, loading, error, pc,
                   cardsToSearch, i, results, validation, tasks, settled, trace, fr, served,
                   mapped, vc, timeoutId>>

NextSuggest ==
    \/ \E ch \in TypedChars : handleInputChange(ch)
    \/ debounceTimer_fires

SpecSuggest == InitFetch /\ [][NextSuggest]_vars

\* ------------------------------------------------------------------ the store task and validateCardName on their own

\* The names the store task and validateCardName are called with: any string,
\* the empty one included.
CardNames == {TxtBolt, <<"b","o","l","t">>, TxtOpt, <<" ">> \o TxtZap, <<>>}

\* The store payloads plus bodies of other shapes: no products, products that
\* is no array, a null product, an available product without a title, and the
\* bodies null and undefined.
MapPayloads ==
    StorePayloads \cup {
        SearchBody(JArr(<<>>)),
        SearchBody(JStr(<<"n","o","n","e">>)),
        SearchBody(JArr(<<
            Product(JBool(TRUE), JStr(TxtBolt), JStr(<<"2">>), JStr(<<"2">>)), JNull >>)),
        SearchBody(JArr(<<
            Product(JBool(TRUE), JUndefined, JStr(<<"1",".","0","0">>), JStr(<<"1",".","0","0">>)),
            Product(JBool(TRUE), JStr(TxtOpt \o <<" ">> \o TxtBolt), JStr(<<"4">>), JStr(<<"6">>)) >>)),
        JNull,
        JUndefined }

\* The try block of store s's task runs for cardName on a fetchWithRetry call
\* that returned `data` at its first attempt.
storeTask_maps ==
    /\ mapped.task.pc = "none"
    /\ \E s \in StoreIdx, cardName \in CardNames, data \in MapPayloads :
        LET f == fetchWithRetry_response(fetchWithRetry_call(StoreMaxRetries),
                                         HttpResponse(TRUE, TRUE, data))
        IN  mapped' = [store |-> s, cardName |-> cardName,
                       task |-> StoreTask(0, cardName, stores[s], f)]
    /\ UNCHANGED <<searchMode, searchTerm, cardList, searchResults, loading, error, pc,
                   cardsToSearch, i, results, validation, tasks, settled, trace, fr, served,
                   vc, timers, timeoutId, suggested>>

\* A caller invokes validateCardName(cardName).
validateCardName_invoked ==
    /\ vc.pc = "none"
    /\ \E cardName \in CardNames : vc' = validateCardName_call(cardName)
    /\ UNCHANGED <<searchMode, searchTerm, cardList, searchResults, loading, error, pc,
                   cardsToSearch, i, results, validation, tasks, settled, trace, fr, served,
                   mapped, timers, timeoutId, suggested>>

\* Its lookup request settles.
validateCardName_answered ==
    /\ vc.pc = "fetch"
    /\ \E r \in ValidationResponses : vc' = validateCardName_response(vc, r)
    /\ UNCHANGED <<searchMode, searchTerm, cardList, searchResults, loading, error, pc,
                   cardsToSearch, i, results, validation, tasks, settled, trace, fr, served,
                   mapped, timers, timeoutId, suggested>>

NextUnits ==
    \/ storeTask_maps
    \/ validateCardName_invoked
    \/ validateCardName_answered

SpecUnits == InitFetch /\ [][NextUnits]_vars

\* ------------------------------------------------------------------ claims

\* The card whose validateCardName call has returned and whose outcome is
\* published: its index in cardsToSearch and in searchResults.
CurrentSettled == validation.pc = "done" /\ Len(searchResults) > validation.card

CurrentOutcome == searchResults[validation.card + 1]

\* The stores were queried for the card with index k.
FannedOut(k) == \E s \in StoreIdx : tasks[s].card = k

\* C1: when validateCardName returns false, the outcome of the card is
\* {status: not_found, results: []} and no store task was started for it, so
\* no store request was issued during its search.
C1_InvalidNameSkipsStores ==
    (validation.pc = "done" /\ ~validation.isValidCard) =>
        /\ CurrentSettled
        /\ CurrentOutcome = [cardName |-> cardsToSearch[validation.card + 1],
                             status   |-> "not_found",
                             results  |-> <<>>]
        /\ ~FannedOut(validation.card)
        /\ \A s \in StoreIdx : tasks[s].pc # "running"

\* The second card failed validation after the first card had been fanned out.
C1_Witness ==
    /\ validation.pc = "done" /\ ~validation.isValidCard /\ validation.card = 1
    /\ Len(searchResults) = 2 /\ searchResults[2].status = "not_found"
    /\ FannedOut(0)

\* What the stores returned for the card with index k, concatenated in store
\* order; empty when the stores were not queried for it.
MergedListOf(k) ==
    IF \A s \in StoreIdx : tasks[s].card = k /\ tasks[s].pc = "done"
    THEN Flat([s \in StoreIdx |-> tasks[s].result])
    ELSE <<>>

\* C2: for every returned outcome, status is not_found iff validation failed,
\* no_inventory iff validation succeeded and the merged list is empty, and
\* found iff the merged list is non-empty.
C2_StatusEquivalences ==
    CurrentSettled =>
        LET merged == MergedListOf(validation.card)
            status == CurrentOutcome.status
        IN  /\ status \in {"found", "not_found", "no_inventory"}
            /\ (status = "not_found") <=> ~validation.isValidCard
            /\ (status = "no_inventory") <=> (validation.isValidCard /\ merged = <<>>)
            /\ (status = "found") <=> (merged # <<>>)
            /\ (status = "found") <=> (CurrentOutcome.results # <<>>)

\* A validated card for which one store exhausted its retries, one answered
\* without a product path and one threw while mapping: no_inventory.
C2_Witness ==
    /\ CurrentSettled /\ validation.isValidCard
    /\ CurrentOutcome.status = "no_inventory"
    /\ \A s \in StoreIdx : tasks[s].card = validation.card
    /\ tasks[1].caught /\ tasks[1].data = JUndefined
    /\ ~tasks[2].caught /\ tasks[2].data # JUndefined
    /\ tasks[3].caught /\ tasks[3].data # JUndefined

\* The doubling schedule: 1s, 2s, 4s, ... in milliseconds, k waits.
DoublingWaits(k) == [j \in 1..k |-> Pow(2, j - 1) * 1000]

\* C3: with maxAttempts >= 1, when the endpoint fails its first k calls
\* (k < maxAttempts) and then succeeds, fetchWithRetry has made exactly k+1
\* calls, has waited 2^(j-1) seconds after the j-th failed call, and returns
\* the payload of the successful call.
C3_RetrySchedule ==
    (/\ fr.maxRetries >= 1
     /\ served # <<>>
     /\ AttemptSucceeds(served[Len(served)])
     /\ \A j \in 1..(Len(served) - 1) : ~AttemptSucceeds(served[j])
     /\ Len(served) <= fr.maxRetries) =>
        /\ fr.pc = "returned"
        /\ fr.calls = Len(served)
        /\ fr.waits = DoublingWaits(Len(served) - 1)
        /\ fr.value = served[Len(served)].json

\* Three attempts allowed or more, two failures, then success at the third call.
C3_Witness ==
    /\ fr.maxRetries >= 3 /\ fr.pc = "returned"
    /\ Len(served) = 3 /\ AttemptSucceeds(served[3])
    /\ ~AttemptSucceeds(served[1]) /\ ~AttemptSucceeds(served[2])
    /\ fr.waits = <<1000, 2000>>
    /\ fr.value \in StorePayloads

\* C4: with maxAttempts >= 1 and an endpoint that fails every call,
\* fetchWithRetry never makes more than maxAttempts calls, and once the
\* maxAttempts-th call has failed it has thrown that call's error rather than
\* returned a value.
C4_RetryExhaustion ==
    (fr.maxRetries >= 1 /\ \A j \in 1..Len(served) : ~AttemptSucceeds(served[j])) =>
        /\ fr.calls <= fr.maxRetries
        /\ Len(served) <= fr.maxRetries
        /\ fr.pc # "returned"
        /\ (fr.pc = "thrown") <=> (Len(served) = fr.maxRetries)
        /\ fr.pc = "thrown" =>
              /\ fr.calls = fr.maxRetries
              /\ fr.error = ErrorOf(served[Len(served)], fr.maxRetries)

\* Three attempts, one failure of each kind, the last one thrown.
C4_Witness ==
    /\ fr.maxRetries = 3 /\ fr.pc = "thrown" /\ fr.calls = 3
    /\ served[1].kind = "error"
    /\ served[2].kind = "http" /\ ~served[2].ok
    /\ served[3].kind = "http" /\ served[3].ok /\ ~served[3].parses
    /\ fr.error.what = "SyntaxError: JSON"

\* searchCards got past its empty-input guard.
Started == pc \notin {"idle", "returned"}

SearchesStarted == Cardinality({j \in 1..Len(trace) : trace[j].ev = "search"})

\* The searchSingleCard calls that have returned.
CardsCompleted ==
    SearchesStarted - (IF pc \in {"validate", "fanout"} THEN 1 ELSE 0)

IsPrefix(a, b) == Len(a) <= Len(b) /\ SubSeq(b, 1, Len(a)) = a

\* C5: after the k-th card completes the published sequence has exactly k
\* outcomes, the j-th for the j-th input name; every published sequence is a
\* prefix of the next, which is at most one longer; the run ends with one
\* outcome per name, and until then the next card is always under way,
\* whatever the status of the cards before it.
C5_IncrementalPublication ==
    /\ [](Started =>
            /\ Len(searchResults) = CardsCompleted
            /\ searchResults = results
            /\ \A j \in 1..Len(searchResults) :
                  searchResults[j].cardName = cardsToSearch[j]
            /\ (pc = "done") <=> (Len(searchResults) = Len(cardsToSearch))
            /\ Len(searchResults) < Len(cardsToSearch) =>
                  pc \in {"pause", "validate", "fanout"})
    /\ [][Started =>
            /\ IsPrefix(searchResults, searchResults')
            /\ Len(searchResults') <= Len(searchResults) + 1]_vars

\* A finished batch of three: not_found, then no_inventory, then found.
C5_Witness ==
    /\ pc = "done" /\ Len(searchResults) = 3
    /\ searchResults[1].status = "not_found"
    /\ searchResults[2].status = "no_inventory"
    /\ searchResults[3].status = "found"

\* C6: searchSingleCard is invoked once per name in input order, a 100 ms
\* pause comes immediately before each invocation but the first, and none
\* comes before the first or after the last.
C6_BatchPacing ==
    Started =>
        /\ \A j \in 1..Len(trace) :
              IF j % 2 = 1
              THEN trace[j] = [ev |-> "search", ms |-> 0,
                               name |-> cardsToSearch[(j + 1) \div 2]]
              ELSE trace[j] = [ev |-> "pause", ms |-> 100, name |-> <<>>]
        /\ Len(trace) <= 2 * Len(cardsToSearch) - 1
        /\ pc = "done" => Len(trace) = 2 * Len(cardsToSearch) - 1
        /\ pc = "pause" => Len(trace) % 2 = 0
        /\ pc \in {"validate", "fanout"} => Len(trace) % 2 = 1

\* A finished batch of three names: search, pause, search, pause, search.
C6_Witness ==
    /\ pc = "done" /\ Len(cardsToSearch) = 3 /\ Len(trace) = 5
    /\ trace[1].ev = "search" /\ trace[2].ev = "pause" /\ trace[5].ev = "search"

\* C7: a lookup request is in flight only while no store task of any card is
\* unsettled and the outcomes of all earlier cards are published; a store task
\* is unsettled (request in flight or backoff wait) only for the card whose
\* validation has returned and whose predecessors are all published.
C7_CardsNeverOverlap ==
    /\ validation.pc = "pending" =>
          /\ \A s \in StoreIdx : tasks[s].pc # "running"
          /\ Len(searchResults) = validation.card
    /\ \A s \in StoreIdx : tasks[s].pc = "running" =>
          /\ validation.pc = "done"
          /\ validation.card = tasks[s].card
          /\ Len(searchResults) = tasks[s].card

\* The lookup of the second card is in flight; the first card's stores have
\* all settled and its outcome is published.
C7_Witness ==
    /\ validation.pc = "pending" /\ validation.card = 1
    /\ \A s \in StoreIdx : tasks[s].pc = "done" /\ tasks[s].card = 0
    /\ Len(searchResults) = 1

\* The stores were queried for the card whose outcome is CurrentOutcome, and
\* all of them have settled.
CurrentMerged ==
    /\ CurrentSettled /\ validation.isValidCard
    /\ \A s \in StoreIdx : tasks[s].card = validation.card /\ tasks[s].pc = "done"

\* The place of element p of list in its stable ascending order by priceMin.
StableRank(list, p) ==
    1 + Cardinality({q \in 1..Len(list) :
            \/ list[q].priceMin < list[p].priceMin
            \/ list[q].priceMin = list[p].priceMin /\ q < p})

\* C8: the result list of an outcome holds exactly the elements of the
\* per-store lists concatenated in store order, ascending by priceMin, and
\* elements of equal priceMin keep their order in that concatenation.
C8_StableAscending ==
    /\ \A k \in 1..Len(searchResults) :
          LET out == searchResults[k].results
          IN  \A a, b \in 1..Len(out) : a < b => out[a].priceMin <= out[b].priceMin
    /\ CurrentMerged =>
          LET flat == MergedListOf(validation.card)
              out  == CurrentOutcome.results
          IN  /\ Len(out) = Len(flat)
              /\ \A p \in 1..Len(flat) : out[StableRank(flat, p)] = flat[p]

\* Three results or more, two neighbours of equal priceMin from different
\* stores, and an order that differs from the concatenation.
C8_Witness ==
    /\ CurrentMerged
    /\ Len(CurrentOutcome.results) >= 3
    /\ CurrentOutcome.results # MergedListOf(validation.card)
    /\ \E a \in 1..(Len(CurrentOutcome.results) - 1) :
          /\ CurrentOutcome.results[a].priceMin = CurrentOutcome.results[a + 1].priceMin
          /\ CurrentOutcome.results[a].store # CurrentOutcome.results[a + 1].store

\* The stores whose query failed for the current card: retries exhausted (no
\* data), or an exception while mapping the response.
FailedStores ==
    {s \in StoreIdx :
        \/ tasks[s].data = JUndefined
        \/ MapProducts(stores[s], cardsToSearch[validation.card + 1], tasks[s].data).threw}

\* What store s alone yields for the current card.
StoreResultsAlone(s) ==
    MapProducts(stores[s], cardsToSearch[validation.card + 1], tasks[s].data).results

\* C9: no store failure escapes searchSingleCard (no promise rejects, the
\* batch's catch block never runs), and for a validated card the outcome is
\* the sorted merge of what the stores outside the failed set yield, the
\* failed ones contributing nothing.
C9_StoreFailuresIsolated ==
    /\ pc # "caught"
    /\ error # "An error occurred while searching. Please try again."
    /\ \A s \in StoreIdx : tasks[s].pc # "rejected"
    /\ CurrentMerged =>
          /\ CurrentOutcome.results =
                SortByPrice(Flat([s \in StoreIdx |->
                    IF s \in FailedStores THEN <<>> ELSE StoreResultsAlone(s)]))
          /\ \A s \in FailedStores : \A k \in 1..Len(CurrentOutcome.results) :
                CurrentOutcome.results[k].store # stores[s].name
          /\ CurrentOutcome.status =
                IF \A s \in StoreIdx : s \in FailedStores \/ StoreResultsAlone(s) = <<>>
                THEN "no_inventory" ELSE "found"

\* Store 1 exhausted its retries, store 2 threw while mapping, and the
\* outcome is what store 3 yields alone.
C9_Witness ==
    /\ CurrentMerged
    /\ tasks[1].data = JUndefined /\ tasks[1].caught
    /\ tasks[2].data # JUndefined /\ tasks[2].caught
    /\ FailedStores = {1, 2}
    /\ CurrentOutcome.status = "found"
    /\ CurrentOutcome.results = SortByPrice(StoreResultsAlone(3))
    /\ Len(CurrentOutcome.results) = 2

\* C10: the store tasks of a card start together, each having issued its
\* first request before any response is handled, and the result list is the
\* sorted concatenation of the per-store lists in store order, in whatever
\* order the stores settled.
C10_FanOutDeterministic ==
    /\ \A s, t \in StoreIdx :
          /\ tasks[s].card = tasks[t].card
          /\ (tasks[s].pc = "none") <=> (tasks[t].pc = "none")
    /\ \A s \in StoreIdx : tasks[s].pc = "running" => tasks[s].f.calls >= 1
    /\ \A k \in 1..Len(settled) : tasks[settled[k]].pc = "done"
    /\ CurrentMerged =>
          /\ Len(settled) = Len(stores)
          /\ CurrentOutcome.results =
                SortByPrice(Flat([s \in StoreIdx |-> tasks[s].result]))

\* The stores settled in the order 3, 2, 1, and a result of store 1 stands
\* ahead of a result of store 3 with the same priceMin.
C10_Witness ==
    /\ CurrentMerged
    /\ settled = <<3, 2, 1>>
    /\ \E a, b \in 1..Len(CurrentOutcome.results) :
          /\ a < b
          /\ CurrentOutcome.results[a].store = stores[1].name
          /\ CurrentOutcome.results[b].store = stores[3].name
          /\ CurrentOutcome.results[a].priceMin = CurrentOutcome.results[b].priceMin

\* ------------------------------------------------------------------ claims on the store task and the validator

\* The try block of a store task ran on its own on the payload mapped.task.data.
MappedDone == mapped.task.pc = "done"

\* The products of a payload as a list: empty when the path is missing or does
\* not hold an array.
ProductList(data) ==
    LET products == ProductsOf(data)
    IN  IF products.t = "array" THEN products.a ELSE <<>>

\* An available product whose title contains cardName, case-insensitively; a
\* title that is missing counts as the empty title.
IsListed(p, cardName) ==
    /\ p.t = "object"
    /\ LET a == Prop(p, "available") IN a.t = "boolean" /\ a.b
    /\ LET t == Prop(p, "title")
       IN  \/ t.t = "string" /\ Includes(ToLowerCase(t.s), ToLowerCase(cardName))
           \/ t.t \in {"undefined", "null"} /\ cardName = <<>>

\* One record for each listed product, in response order.
ListedRecords(store, cardName, data) ==
    LET Listed(p) == IsListed(p, cardName)
        kept      == SelectSeq(ProductList(data), Listed)
    IN  [k \in 1..Len(kept) |-> NormalizedResult(store, kept[k])]

\* The payload's products can be filtered and mapped: an array without null
\* entries whose available products have a string title or none.
Mappable(data) ==
    LET products == ProductsOf(data)
    IN  /\ products.t = "array"
        /\ \A k \in 1..Len(products.a) :
              LET p == products.a[k]
                  a == Prop(p, "available")
                  t == Prop(p, "title")
              IN  /\ p.t = "object"
                  /\ (a.t = "boolean" /\ a.b) => (t.t \in {"string", "undefined", "null"})

C12_OneLookupNoRetry ==
    /\ vc.pc \in {"none", "fetch", "returned"}
    /\ vc.pc = "fetch" => vc.calls = 1 /\ vc.answers = <<>>
    /\ vc.pc = "returned" =>
          /\ vc.calls = 1
          /\ Len(vc.answers) = 1
          /\ vc.value <=> (vc.answers[1].kind = "http" /\ vc.answers[1].ok)

\* A call returned false on a response with a non-success status, after its
\* single request.
C12_Witness ==
    /\ vc.pc = "returned"
    /\ vc.answers = <<HttpResponse(FALSE, TRUE, JNull)>>
    /\ ~vc.value
    /\ vc.term = TxtZap

\* C13: for every integer maxRetries, zero and negative ones included, a
\* fetchWithRetry call that completes normally returns the JSON body of a
\* successful request: it never returns without a successful call.
C13_NeverReturnsWithoutSuccess ==
    fr.pc = "returned" =>
        /\ served # <<>>
        /\ AttemptSucceeds(served[Len(served)])
        /\ fr.value = served[Len(served)].json

\* The form holds a name to search for: a search box that is not blank in
\* single mode, a card list with a line that is not blank in list mode.
InputHasName ==
    IF searchMode = "single"
    THEN Trim(searchTerm) # <<>>
    ELSE \E k \in 1..Len(SplitLines(cardList)) : Trim(SplitLines(cardList)[k]) # <<>>

EnterNameErrors == {"Please enter a card name to search", "Please enter at least one card name"}

\* C14: every card name searchCards passes to searchSingleCard is trimmed and
\* not empty, in both modes; when the form holds no name, searchCards sets the
\* 'please enter a card name' error and issues no validation or store request.
C14_OnlyTrimmedNonEmptyNames ==
    /\ \A k \in 1..Len(trace) :
          trace[k].ev = "search" =>
              trace[k].name # <<>> /\ Trim(trace[k].name) = trace[k].name
    /\ (~InputHasName /\ pc # "idle") =>
          /\ pc = "returned"
          /\ error \in EnterNameErrors
          /\ validation = NoValidation
          /\ \A s \in StoreIdx : tasks[s] = NoTask

\* C15: every record of every published outcome satisfies
\* 0 <= priceMin <= priceMax, whatever price_min and price_max the store
\* response carries (present, missing, any decimal strings).
C15_PriceRangeOrdered ==
    \A k \in 1..Len(searchResults) :
        \A j \in 1..Len(searchResults[k].results) :
            LET r == searchResults[k].results[j]
            IN  0 <= r.priceMin /\ r.priceMin <= r.priceMax

NoCardsFound == "No cards found. Please check your search terms."

Statuses == {"found", "not_found", "no_inventory"}

\* C16: the final 'No cards found' error is unreachable: searchCards returns
\* early on an empty list, and otherwise every processed name gives one
\* outcome whose status is one of the three counted, so the three totals are
\* never all zero.
C16_NoCardsFoundUnreachable ==
    /\ error # NoCardsFound
    /\ \A k \in 1..Len(results) : results[k].status \in Statuses
    /\ pc = "done" =>
          /\ Len(results) = Len(cardsToSearch)
          /\ Len(results) >= 1
          /\ CountStatus(results, "found") + CountStatus(results, "not_found")
                + CountStatus(results, "no_inventory") = Len(results)

\* A run ended with no card found at any store and none in inventory, only
\* not_found outcomes, and the error stayed clear.
C16_Witness ==
    /\ pc = "done"
    /\ CountStatus(results, "found") = 0
    /\ CountStatus(results, "no_inventory") = 0
    /\ CountStatus(results, "not_found") = Len(cardsToSearch)
    /\ error = ""
    /\ ~loading

\* searchCards ended in its catch block.
Caught == pc = "caught"

\* C17: when an exception leaves searchSingleCard while searchCards processes
\* card i, searchCards sets the one generic error message, processes no card
\* after i (no further lookup or store request is issued), leaves the
\* outcomes published so far as they are and clears loading.
C17_ExceptionEndsBatch ==
    /\ [](Caught =>
            /\ error = GenericError
            /\ ~loading
            /\ Len(searchResults) = i
            /\ searchResults = results
            /\ SearchesStarted = i + 1
            /\ validation.card = i /\ validation.pc = "done"
            /\ \A s \in StoreIdx : tasks[s].card = i /\ tasks[s].pc = "done")
    /\ [][(~Caught /\ Caught') =>
            /\ searchResults' = searchResults
            /\ trace' = trace
            /\ validation' = validation]_vars
    /\ [][Caught => UNCHANGED vars]_vars

\* The exception came at the second of three cards: one outcome is published,
\* the third card was never searched.
C17_Witness ==
    /\ Caught
    /\ i = 1
    /\ Len(cardsToSearch) = 3
    /\ Len(searchResults) = 1
    /\ searchResults[1].cardName = cardsToSearch[1]

\* C18: each keystroke cancels the timer the keystroke before it left, so one
\* timer at most is pending and it is the last keystroke's; a timer that fires
\* calls fetchSuggestions with what the search box holds, and no two
\* autocomplete requests go out for one pause in typing (one search box
\* content).
C18_OnlyLastTimerFires ==
    /\ Cardinality(timers) <= 1
    /\ \A t \in timers : t.id = Len(searchTerm) /\ t.args = searchTerm
    /\ \A k \in 1..Len(suggested) : suggested[k].query = suggested[k].term
    /\ \A j, k \in 1..Len(suggested) :
          (j < k /\ suggested[j].requested /\ suggested[k].requested) =>
              suggested[j].term # suggested[k].term

\* searchCards has left its loop and run the finally block.
Ended == pc = "done" /\ ~loading

\* C19: when every network call completes, a searchCards run over any list of
\* names ends with loading false; loading is true from its start until then;
\* no store receives more than three requests for a card, and the validator
\* receives one request per card: lookups go out for the cards 0, 1, 2, ...
\* in turn, one each, up to the last card.
C19_RunTerminates ==
    /\ Started ~> Ended
    /\ []((Started /\ pc # "done") => loading)
    /\ [](pc = "done" => ~loading)
    /\ [](\A s \in StoreIdx : tasks[s].f.calls <= 3)
    /\ [][(validation'.pc = "pending" /\ validation' # validation) =>
            /\ validation.pc # "pending"
            /\ validation'.card = validation.card + 1]_vars
    /\ [][validation'.card # validation.card => validation'.pc = "pending"]_vars
    /\ [](pc = "done" =>
            /\ validation.card = Len(cardsToSearch) - 1
            /\ validation.pc = "done")

\* A run over three names ended after a store had used up its three requests
\* for the last card.
C19_Witness ==
    /\ Ended
    /\ Len(searchResults) = 3
    /\ \E s \in StoreIdx : tasks[s].caught /\ tasks[s].data = JUndefined

====
